---------------------------- MODULE Spec2Model ----------------------------
(***************************************************************************)
(* Noodlification of segment automata (src/src/nfa/noodlify.cc):           *)
(* SegNfa::noodlify with its AFA printer, and the two overloads of         *)
(* SegNfa::noodlify_for_equation.                                          *)
(*                                                                         *)
(* An automaton is a record [states, initialstates, finalstates, delta];   *)
(* delta is a set of triples <<src, symbol, tgt>>.  The NFA library        *)
(* (trim, reachability, emptiness, Segmentation) is not part of the file   *)
(* and is modelled from its contract.                                      *)
(***************************************************************************)
EXTENDS Integers, Sequences, FiniteSets, TLC

\* ------------------------------------------------------------------ bounds
\* Most epsilon transitions leaving one layer of an input automaton.
MaxEps == 2
\* Largest alphabet handed to noodlify.
MaxAlphabet == 3
\* Longest left-hand side handed to noodlify_for_equation.
MaxLhs == 2

\* The layers of states of the input automata: epsilon transitions lead from
\* one layer to the next, symbol transitions stay inside a layer.
Layers == << {0, 1}, {2, 3}, {4, 5} >>

VARIABLES
    pc,                         \* position in noodlify / noodlify_for_equation
    aut,                        \* noodlify's automaton argument
    epsilon,                    \* noodlify's epsilon argument
    variableLocations,          \* per variable, the segments it occupies
    alph,                       \* the EnumAlphabet's symbols
    include_empty,
    useBits,
    segments,                   \* segmentation.get_segments_raw()
    epsilon_depths,             \* segmentation.get_epsilon_depths()
    segments_one_initial_final, \* the map (init, final) -> trimmed segment
    afaOutput,                  \* the lines written to the AFA sink
    symbolRemapping,            \* the printer's first-sight symbol table
    remapLog,                   \* the calls of remapSymbol, in order
    index,                      \* the combination index of the main loop
    noodles,                    \* the NoodleSequence being built
    overload,                   \* which entry point was called
    left_automata,              \* per LHS automaton, the calls made on it
    right_automaton,            \* the RHS automaton
    params,                     \* the configuration bag
    product,                    \* product_pres_eps_trans
    productOps                  \* reduce / invert calls applied to product

vars == << pc, aut, epsilon, variableLocations, alph, include_empty, useBits,
           segments, epsilon_depths, segments_one_initial_final, afaOutput,
           symbolRemapping, remapLog, index, noodles, overload,
           left_automata, right_automaton, params, product, productOps >>

\* ----------------------------------------------------------- generic helpers
RECURSIVE SetToSeq(_)
\* The elements of a set of integers in increasing order (an OrdVector).
SetToSeq(S) ==
    IF S = {} THEN << >>
    ELSE LET m == CHOOSE x \in S : \A y \in S : x <= y
         IN  << m >> \o SetToSeq(S \ {m})

RECURSIVE Product(_, _)
Product(ks, d) == IF d = 0 THEN 1 ELSE Product(ks, d - 1) * ks[d]

RECURSIVE JoinStr(_, _)
\* The strings of a sequence, joined by a separator.
JoinStr(ss, sep) ==
    IF ss = << >> THEN ""
    ELSE IF Len(ss) = 1 THEN ss[1]
    ELSE ss[1] \o sep \o JoinStr(Tail(ss), sep)

RECURSIVE FlattenSeq(_)
FlattenSeq(ss) == IF ss = << >> THEN << >> ELSE ss[1] \o FlattenSeq(Tail(ss))

\* ------------------------------------------------------------ NFA library
EmptyNfa == [states |-> {}, initialstates |-> {}, finalstates |-> {}, delta |-> {}]

get_num_of_states(A) == Cardinality(A.states)

RECURSIVE Closure(_, _)
\* The states reached from S along the edges E (pairs <<from, to>>).
Closure(S, E) ==
    LET N == S \cup { e[2] : e \in { x \in E : x[1] \in S } }
    IN  IF N = S THEN S ELSE Closure(N, E)

Edges(A) == { << t[1], t[3] >> : t \in A.delta }
Reversed(E) == { << e[2], e[1] >> : e \in E }

get_reachable_states(A) == Closure(A.initialstates, Edges(A))

get_useful_states(A) ==
    get_reachable_states(A) \cap Closure(A.finalstates, Reversed(Edges(A)))

\* trim: remove the states that are not on a path from an initial state to a
\* final state.
Trim(A) ==
    LET U == get_useful_states(A)
    IN  [states |-> U,
         initialstates |-> A.initialstates \cap U,
         finalstates |-> A.finalstates \cap U,
         delta |-> { t \in A.delta : t[1] \in U /\ t[3] \in U }]

is_lang_empty(A) == get_useful_states(A) = {}

\* Outgoing transitions of a state, grouped by symbol, in increasing symbol
\* order; each group carries its targets in increasing order.
get_transitions_from(A, s) ==
    LET syms == SetToSeq({ t[2] : t \in { x \in A.delta : x[1] = s } })
    IN  [ i \in 1 .. Len(syms) |->
            [symbol |-> syms[i],
             states_to |-> SetToSeq({ t[3] : t \in { x \in A.delta :
                                         x[1] = s /\ x[2] = syms[i] } })] ]

\* ------------------------------------------------------------ Segmentation
\* The states of one layer: reached from `inits` without crossing epsilon.
LayerStates(A, eps, inits) ==
    Closure(inits, { << t[1], t[3] >> : t \in { x \in A.delta : x[2] # eps } })

\* The epsilon transitions leaving a set of states, as an ordered list.
EpsilonFrom(A, eps, L) ==
    LET E == { t \in A.delta : t[2] = eps /\ t[1] \in L }
        n == Cardinality(A.states) + 1
        keys == SetToSeq({ t[1] * n + t[3] : t \in E })
    IN  [ i \in 1 .. Len(keys) |->
            [src |-> keys[i] \div n, symb |-> eps, tgt |-> keys[i] % n] ]

RECURSIVE SplitLayers(_, _, _, _)
\* The layers met from `inits` on, each with the epsilon transitions leaving
\* it: a sequence of [layer, inits, eps].
SplitLayers(A, eps, inits, fuel) ==
    LET L == LayerStates(A, eps, inits)
        E == EpsilonFrom(A, eps, L)
        here == [layer |-> L, inits |-> inits, eps |-> E]
    IN  IF E = << >> \/ fuel = 0 THEN << here >>
        ELSE << here >> \o
             SplitLayers(A, eps, { E[i].tgt : i \in 1 .. Len(E) }, fuel - 1)

\* get_epsilon_depths(): depth d (from 0) is element d + 1.
get_epsilon_depths(A, eps) ==
    LET sl == SplitLayers(A, eps, A.initialstates, Cardinality(A.states))
    IN  [ d \in 1 .. Len(sl) - 1 |-> sl[d].eps ]

\* get_segments_raw(): segment s (from 0) is element s + 1.
get_segments_raw(A, eps) ==
    LET sl == SplitLayers(A, eps, A.initialstates, Cardinality(A.states))
    IN  [ s \in 1 .. Len(sl) |->
            [states |-> sl[s].layer,
             initialstates |-> sl[s].inits,
             finalstates |->
                IF s < Len(sl)
                THEN { sl[s].eps[i].src : i \in 1 .. Len(sl[s].eps) }
                ELSE A.finalstates \cap sl[s].layer,
             delta |-> { t \in A.delta : t[2] # eps /\ t[1] \in sl[s].layer
                                          /\ t[3] \in sl[s].layer }] ]

\* ---------------------------------------------------------------- noodlify
RECURSIVE Sum(_, _)
Sum(ks, d) == IF d = 0 THEN 1 ELSE Sum(ks, d - 1) + ks[d]

\* Mutant: the sizes are added to the count instead of multiplied into it.
get_num_of_permutations_added(depths) ==
    Sum([ d \in 1 .. Len(depths) |-> Len(depths[d]) ], Len(depths))

get_num_of_permutations(depths) ==
    Product([ d \in 1 .. Len(depths) |-> Len(depths[d]) ], Len(depths))

\* Mutant: the single segment is returned without the emptiness test.
SingleSegmentNoodlesUntested(segs, incl) == << << Trim(segs[1]) >> >>

\* The single-segment return of noodlify.
SingleSegmentNoodles(segs, incl) ==
    LET segment == Trim(segs[1])
    IN  IF get_num_of_states(segment) > 0 \/ incl
        THEN << << segment >> >>
        ELSE << >>

\* Mutant: the first segment is trimmed without replacing its final states.
SegmentOneFinalUnpinned(segs, f) == Trim(segs[1])

\* A copy of segment s (from 1) with its final states, its initial states or
\* both replaced by one state, trimmed.
SegmentOneFinal(segs, f) == Trim([segs[1] EXCEPT !.finalstates = {f}])
SegmentOneInit(segs, i) == Trim([segs[Len(segs)] EXCEPT !.initialstates = {i}])
SegmentOneInitFinal(segs, s, i, f) ==
    Trim([segs[s] EXCEPT !.initialstates = {i}, !.finalstates = {f}])

\* Whether a trimmed copy is stored in the map.
KeepSegment(nfa, incl) == get_num_of_states(nfa) > 0 \/ incl

\* The map segments_one_initial_final after its construction loop.
BuildSegmentsOneInitialFinal(segs, unused_state, incl) ==
    LET n == Len(segs)
        first == { [key |-> << unused_state, f >>, nfa |-> SegmentOneFinal(segs, f)] :
                     f \in segs[1].finalstates }
        last == { [key |-> << i, unused_state >>, nfa |-> SegmentOneInit(segs, i)] :
                     i \in segs[n].initialstates }
        mid == UNION { { [key |-> << p[1], p[2] >>,
                          nfa |-> SegmentOneInitFinal(segs, s, p[1], p[2])] :
                            p \in segs[s].initialstates \X segs[s].finalstates } :
                       s \in 2 .. n - 1 }
        kept == { e \in first \cup mid \cup last : KeepSegment(e.nfa, incl) }
    IN  [ k \in { e.key : e \in kept } |-> (CHOOSE e \in kept : e.key = k).nfa ]

RECURSIVE EpsilonNoodleUndivided(_, _, _)
\* Mutant: the index is not divided between the depths.
EpsilonNoodleUndivided(depths, depth, temp) ==
    IF depth > Len(depths) THEN << >>
    ELSE << depths[depth][(temp % Len(depths[depth])) + 1] >> \o
         EpsilonNoodleUndivided(depths, depth + 1, temp)

RECURSIVE EpsilonNoodle(_, _, _)
\* The transitions picked by a combination index: depth by depth, the
\* remainder picks the transition and the quotient goes on.
EpsilonNoodle(depths, depth, temp) ==
    IF depth > Len(depths) THEN << >>
    ELSE LET num_of_trans_at_cur_depth == Len(depths[depth])
             computed_index == temp % num_of_trans_at_cur_depth
         IN  << depths[depth][computed_index + 1] >> \o
             EpsilonNoodle(depths, depth + 1, temp \div num_of_trans_at_cur_depth)

\* The keys looked up for one combination, in lookup order.
NoodleKeys(epsilon_noodle, unused_state) ==
    LET D == Len(epsilon_noodle)
    IN  [ j \in 1 .. D + 1 |->
            IF j = 1 THEN << unused_state, epsilon_noodle[1].src >>
            ELSE IF j = D + 1 THEN << epsilon_noodle[D].tgt, unused_state >>
            ELSE << epsilon_noodle[j - 1].tgt, epsilon_noodle[j].src >> ]

\* The noodles after one pass of the main loop for `idx`.
PushNoodle(acc, registry, depths, unused_state, idx) ==
    LET keys == NoodleKeys(EpsilonNoodle(depths, 1, idx), unused_state)
    IN  IF \A j \in 1 .. Len(keys) : keys[j] \in DOMAIN registry
        THEN Append(acc, [ j \in 1 .. Len(keys) |-> registry[keys[j]] ])
        ELSE acc

\* ------------------------------------------------------------- AFA printer
\* A line of the sink: its kind, its text and, for the %Final line, the
\* clauses written from the unordered map (their order is the container's).
Line(kind, text) == [kind |-> kind, text |-> text, clauses |-> {}]

Q(s) == "q" \o ToString(s)
NotQ(s) == "!q" \o ToString(s)
QPrimed(s) == "q" \o ToString(s) \o "'"

HeaderLines(bits) ==
    IF ~bits
    THEN << Line("header", "@AFA-explicit"),
            Line("header", "%Alphabet-numbers"),
            Line("header", "%Tracks-auto") >>
    ELSE << Line("header", "@AFA-bits") >>

\* segmentReachableStates: per segment, its reachable states.
SegmentReachableStates(segs) ==
    [ s \in 1 .. Len(segs) |-> get_reachable_states(segs[s]) ]

RECURSIVE InitialStatesNoodles(_, _, _)
\* initialStatesNoodles after the segments from `s` on: every old tuple is
\* extended by every initial state of the segment, initial state by initial
\* state.
InitialStatesNoodles(segs, s, old) ==
    IF s > Len(segs) THEN old
    ELSE LET inits == SetToSeq(segs[s].initialstates)
         IN  InitialStatesNoodles(segs, s + 1,
                 FlattenSeq([ i \in 1 .. Len(inits) |->
                     [ j \in 1 .. Len(old) |-> Append(old[j], inits[i]) ] ]))

\* allSegmentsInitialStates: the initial states of the segments after the
\* first, in segment order.
AllSegmentsInitialStates(segs) ==
    FlattenSeq([ s \in 1 .. Len(segs) - 1 |-> SetToSeq(segs[s + 1].initialstates) ])

InitialLine(A, segs) ==
    LET inits == SetToSeq(A.initialstates)
        tuples == InitialStatesNoodles(segs, 2, << << >> >>)
        tupleText(t) ==
            "(" \o JoinStr([ i \in 1 .. Len(t) |-> Q(t[i]) \o " & " \o QPrimed(t[i]) ],
                           " & ") \o ")"
    IN  Line("initial",
             "%Initial (" \o JoinStr([ i \in 1 .. Len(inits) |-> Q(inits[i]) ], " | ")
             \o ")" \o " & ("
             \o JoinStr([ i \in 1 .. Len(tuples) |-> tupleText(tuples[i]) ], " | ")
             \o ")")

\* Mutant: every epsilon source is removed, whatever its target.
RemovedSourcesOfAll(depths, init) ==
    UNION { { depths[d][i].src : i \in 1 .. Len(depths[d]) } : d \in 1 .. Len(depths) }

\* The epsilon sources removed from the entry of an initial state.
RemovedSources(depths, init) ==
    UNION { { depths[d][i].src :
                i \in { j \in 1 .. Len(depths[d]) : depths[d][j].tgt = init } } :
            d \in 1 .. Len(depths) }

\* initStateToPreviousNonFinalStates after the removal loop: per initial
\* state of a later segment, the reachable states of the segment before it
\* less the sources of the epsilon transitions that lead to it.
InitStateToPreviousNonFinalStates(segs, depths) ==
    LET reach == SegmentReachableStates(segs)
        owner(i) == CHOOSE s \in 2 .. Len(segs) :
                        /\ i \in segs[s].initialstates
                        /\ \A r \in 2 .. Len(segs) :
                              i \in segs[r].initialstates => r <= s
    IN  [ i \in UNION { segs[s].initialstates : s \in 2 .. Len(segs) } |->
            reach[owner(i) - 1] \ RemovedSources(depths, i) ]

stateSetMinus(lhs, rhs) == { s \in lhs : s \notin rhs }

\* The first part of the %Final line: the last segment's reachable states
\* that are not final.
FinalSegmentPart(segs) ==
    LET finalSegNonFinalStates ==
            SetToSeq(stateSetMinus(SegmentReachableStates(segs)[Len(segs)],
                                   segs[Len(segs)].finalstates))
    IN  IF Len(finalSegNonFinalStates) = 0 THEN "true"
        ELSE "(" \o JoinStr([ i \in 1 .. Len(finalSegNonFinalStates) |->
                                NotQ(finalSegNonFinalStates[i]) ], " & ") \o ")"

\* One clause of the %Final line.
FinalClause(init, prev) ==
    LET ss == SetToSeq(prev)
    IN  " & (!q" \o ToString(init) \o "' | ("
        \o JoinStr([ i \in 1 .. Len(ss) |-> NotQ(ss[i]) ], " & ") \o "))"

FinalLine(segs, depths) ==
    LET m == InitStateToPreviousNonFinalStates(segs, depths)
    IN  [kind |-> "final",
         text |-> "%Final " \o FinalSegmentPart(segs),
         clauses |-> { FinalClause(i, m[i]) :
                          i \in { j \in DOMAIN m : Cardinality(m[j]) # 0 } }]

RECURSIVE BitLength(_)
\* The number of binary digits of x (0 for 0).
BitLength(x) == IF x = 0 THEN 0 ELSE 1 + BitLength(x \div 2)

\* __builtin_clz on a 32-bit word, for x > 0.
BuiltinClz(x) == 32 - BitLength(x)

\* Mutant: the size itself, not the largest id, is measured.
NeededBitsOfSize(size) == IF size > 1 THEN 32 - BuiltinClz(size) ELSE 1

\* neededBits for an alphabet of the given size.
NeededBits(size) == IF size > 1 THEN 32 - BuiltinClz(size - 1) ELSE 1

RECURSIVE Bit(_, _)
\* Binary digit k of x, digit 0 being the least significant.
Bit(x, k) == IF k = 0 THEN x % 2 ELSE Bit(x \div 2, k - 1)

\* std::bitset<32>(r).to_string(): character 0 is the most significant digit.
SymBits(r) == [ p \in 0 .. 31 |-> IF Bit(r, 31 - p) = 1 THEN "1" ELSE "0" ]

\* The text remapSymbol returns for a remapped symbol on a track.
EncodeSymbol(remappedSymbol, trackNum, neededBits, bits) ==
    IF bits
    THEN LET symBits == SymBits(remappedSymbol)
             startingBit == trackNum * neededBits
         IN  JoinStr([ n \in 1 .. neededBits |->
                        (IF symBits[31 - (n - 1)] = "0" THEN "!" ELSE "")
                        \o "a" \o ToString(startingBit + (n - 1)) ], " & ")
    ELSE ToString(remappedSymbol) \o "@t" \o ToString(trackNum)

\* The printer's table: [map, newSymbol, log].
NewRemap == [map |-> << >>, newSymbol |-> 0, log |-> << >>]

\* Mutant: the entry of a symbol seen before is not read back.
RemappedIdUnremembered(st, symToRemap) == st.newSymbol

\* The id remapSymbol gives a symbol: its entry, or the next free id.
RemappedId(st, symToRemap) ==
    IF symToRemap \in DOMAIN st.map THEN st.map[symToRemap] ELSE st.newSymbol

\* One call of remapSymbol: the table after it and the text returned.
remapSymbol(st, symToRemap, trackNum, neededBits, bits) ==
    LET found == symToRemap \in DOMAIN st.map
        remappedSymbol == RemappedId(st, symToRemap)
        text == EncodeSymbol(remappedSymbol, trackNum, neededBits, bits)
    IN  [st |-> [map |-> IF found THEN st.map
                         ELSE [ k \in DOMAIN st.map \cup {symToRemap} |->
                                  IF k = symToRemap THEN remappedSymbol
                                  ELSE st.map[k] ],
                 newSymbol |-> IF found THEN st.newSymbol ELSE st.newSymbol + 1,
                 log |-> Append(st.log, [symbol |-> symToRemap,
                                         remapped |-> remappedSymbol,
                                         track |-> trackNum,
                                         text |-> text])],
         text |-> text]

RECURSIVE TransitionsText(_, _, _, _, _, _)
\* The disjuncts written for the transitions trs[n ..] of one state: the
\* table after them and their texts.
TransitionsText(trs, n, trackNum, neededBits, bits, st) ==
    IF n > Len(trs) THEN [st |-> st, parts |-> << >>]
    ELSE LET r == remapSymbol(st, trs[n].symbol, trackNum, neededBits, bits)
             tos == trs[n].states_to
             part == "(" \o r.text \o " & ("
                     \o JoinStr([ j \in 1 .. Len(tos) |-> Q(tos[j]) ], " | ")
                     \o "))"
             rest == TransitionsText(trs, n + 1, trackNum, neededBits, bits, r.st)
         IN  [st |-> rest.st, parts |-> << part >> \o rest.parts]

\* The states whose transitions are printed, in printing order, each with
\* its track: per variable, per location of the variable, the reachable
\* states of that segment that have a transition.
PrintedStates(segs, varLocs) ==
    LET reach == SegmentReachableStates(segs)
        ofLoc(varNum, varLoc) ==
            LET ss == SetToSeq({ s \in reach[varLoc + 1] :
                        Len(get_transitions_from(segs[varLoc + 1], s)) # 0 })
            IN  [ j \in 1 .. Len(ss) |->
                    [state |-> ss[j], track |-> varNum,
                     trans |-> get_transitions_from(segs[varLoc + 1], ss[j])] ]
        ofVar(varNum) ==
            FlattenSeq([ l \in 1 .. Len(varLocs[varNum + 1]) |->
                           ofLoc(varNum, varLocs[varNum + 1][l]) ])
    IN  FlattenSeq([ v \in 1 .. Len(varLocs) |-> ofVar(v - 1) ])

RECURSIVE StateLines(_, _, _, _, _)
\* The transition lines of the states jobs[n ..]: the table after them and
\* the lines.
StateLines(jobs, n, neededBits, bits, st) ==
    IF n > Len(jobs) THEN [st |-> st, lines |-> << >>]
    ELSE LET t == TransitionsText(jobs[n].trans, 1, jobs[n].track, neededBits, bits, st)
             line == Line("state", Q(jobs[n].state) \o " " \o JoinStr(t.parts, " | "))
             rest == StateLines(jobs, n + 1, neededBits, bits, t.st)
         IN  [st |-> rest.st, lines |-> << line >> \o rest.lines]

\* The self-loop lines of the primed copies.
StubLines(segs) ==
    LET inits == AllSegmentsInitialStates(segs)
    IN  [ j \in 1 .. Len(inits) |->
            Line("state", QPrimed(inits[j]) \o " " \o QPrimed(inits[j])) ]

MarkerLine == Line("marker", "#AFA was fully printed")

\* Mutant: the self-loop lines are written after the marker.
PrintAfaMarkerEarly(A, segs, depths, varLocs, alphabet, bits) ==
    LET t == StateLines(PrintedStates(segs, varLocs), 1,
                        NeededBits(Cardinality(alphabet)), bits, NewRemap)
    IN  [st |-> t.st,
         lines |-> HeaderLines(bits) \o << InitialLine(A, segs) >>
                   \o << FinalLine(segs, depths) >> \o t.lines
                   \o << MarkerLine >> \o StubLines(segs)]

\* Everything the printer writes, with the table it ends with.
PrintAfa(A, segs, depths, varLocs, alphabet, bits) ==
    LET t == StateLines(PrintedStates(segs, varLocs), 1,
                        NeededBits(Cardinality(alphabet)), bits, NewRemap)
    IN  [st |-> t.st,
         lines |-> HeaderLines(bits) \o << InitialLine(A, segs) >>
                   \o << FinalLine(segs, depths) >> \o t.lines
                   \o StubLines(segs) \o << MarkerLine >>]

\* ------------------------------------------------------------------ inputs
Lo(l) == CHOOSE x \in Layers[l] : \A y \in Layers[l] : x <= y
Hi(l) == CHOOSE x \in Layers[l] : \A y \in Layers[l] : x >= y

\* The symbols of the input automata, and an epsilon above them all.
Symbols == 0 .. Len(Layers) - 1
FreshEpsilon == Len(Layers)

\* The symbol transitions a layer may carry.
InternalMenu(l) == { << Lo(l), l - 1, Hi(l) >>, << Lo(l), l % Len(Layers), Hi(l) >> }

\* The epsilon transitions between a layer and the next: at least one, at
\* most `most`.
EpsChoices(l, most) ==
    { E \in SUBSET { << p[1], FreshEpsilon, p[2] >> : p \in Layers[l] \X Layers[l + 1] } :
        Cardinality(E) \in 1 .. most }

RECURSIVE DeltaChoices(_, _, _, _)
\* The transition relations over layers l .. n; `full` allows every subset
\* of a layer's menu, otherwise at most its first transition.
DeltaChoices(l, n, most, full) ==
    LET inner == IF full THEN SUBSET InternalMenu(l)
                 ELSE { {}, { << Lo(l), l - 1, Hi(l) >> } }
    IN  IF l = n THEN inner
        ELSE { I \cup E \cup R : I \in inner, E \in EpsChoices(l, most),
                                 R \in DeltaChoices(l + 1, n, most, full) }

NonEmptySubsets(S) == SUBSET S \ { {} }

\* Input automata over the first n layers.
Automata(n, inits, finals, most, full) ==
    { [states |-> UNION { Layers[l] : l \in 1 .. n },
       initialstates |-> I, finalstates |-> F, delta |-> d] :
         I \in inits, F \in finals, d \in DeltaChoices(1, n, most, full) }

NumSegments(A, eps) == Len(get_segments_raw(A, eps))

\* variableLocations: one variable per segment, one variable over all the
\* segments, or no variable at all.
VarLocChoices(n) ==
    { [ v \in 1 .. n |-> << v - 1 >> ],
      << [ j \in 1 .. n |-> j - 1 ] >>,
      << >> }

\* The alphabets: the first k symbols, k up to MaxAlphabet.
Alphabets == { 0 .. k - 1 : k \in 0 .. MaxAlphabet }

NoCall ==
    /\ overload = "none"
    /\ left_automata = << >>
    /\ right_automaton = [lang_empty |-> FALSE, calls |-> << >>]
    /\ params = << >>
    /\ product = EmptyNfa
    /\ productOps = << >>

Fresh ==
    /\ segments = << >>
    /\ epsilon_depths = << >>
    /\ segments_one_initial_final = << >>
    /\ afaOutput = << >>
    /\ symbolRemapping = << >>
    /\ remapLog = << >>
    /\ index = 0
    /\ noodles = << >>

\* noodlify called on automata of every shape, one variable per segment.
Init ==
    /\ pc = "noodlify"
    /\ aut \in UNION { Automata(n, NonEmptySubsets(Layers[1]),
                                NonEmptySubsets(Layers[n]), MaxEps, FALSE) :
                       n \in 1 .. Len(Layers) }
    /\ epsilon = FreshEpsilon
    /\ variableLocations = [ v \in 1 .. NumSegments(aut, epsilon) |-> << v - 1 >> ]
    /\ alph = Symbols
    /\ include_empty \in BOOLEAN
    /\ useBits = TRUE
    /\ Fresh
    /\ NoCall

\* noodlify called with every printing option, on automata with one epsilon
\* transition per depth.
InitAfa ==
    /\ pc = "noodlify"
    /\ aut \in UNION { Automata(n, { Layers[1] }, { Layers[n] }, 1, TRUE) :
                       n \in 1 .. Len(Layers) }
    /\ epsilon = FreshEpsilon
    /\ variableLocations \in VarLocChoices(NumSegments(aut, epsilon))
    /\ alph \in Alphabets
    /\ include_empty = FALSE
    /\ useBits \in BOOLEAN
    /\ Fresh
    /\ NoCall

\* ----------------------------------------------------------------- actions
unused_state == get_num_of_states(aut)

driverVars == << overload, left_automata, right_automaton, params, product, productOps >>
inputVars == << aut, epsilon, variableLocations, alph, include_empty, useBits >>

\* noodlify, to the single-segment return.
NoodlifyBegin ==
    /\ pc = "noodlify"
    /\ LET segs == get_segments_raw(aut, epsilon)
       IN  /\ segments' = segs
           /\ epsilon_depths' = get_epsilon_depths(aut, epsilon)
           /\ IF Len(segs) = 1
              THEN /\ noodles' = SingleSegmentNoodles(segs, include_empty)
                   /\ pc' = "done"
              ELSE /\ noodles' = noodles
                   /\ pc' = "registry"
    /\ UNCHANGED << segments_one_initial_final, afaOutput, symbolRemapping,
                    remapLog, index, inputVars, driverVars >>

\* The construction of segments_one_initial_final.
BuildRegistry ==
    /\ pc = "registry"
    /\ segments_one_initial_final' =
          BuildSegmentsOneInitialFinal(segments, unused_state, include_empty)
    /\ pc' = "afa"
    /\ UNCHANGED << segments, epsilon_depths, afaOutput, symbolRemapping, remapLog,
                    index, noodles, inputVars, driverVars >>

\* The AFA printer.
EmitAFA ==
    /\ pc = "afa"
    /\ LET out == PrintAfa(aut, segments, epsilon_depths, variableLocations, alph, useBits)
       IN  /\ afaOutput' = afaOutput \o out.lines
           /\ symbolRemapping' = out.st.map
           /\ remapLog' = out.st.log
    /\ index' = 0
    /\ pc' = "enumerate"
    /\ UNCHANGED << segments, epsilon_depths, segments_one_initial_final, noodles,
                    inputVars, driverVars >>

\* One pass of the loop over the combinations.
NoodleStep ==
    /\ pc = "enumerate"
    /\ index < get_num_of_permutations(epsilon_depths)
    /\ noodles' = PushNoodle(noodles, segments_one_initial_final, epsilon_depths,
                             unused_state, index)
    /\ index' = index + 1
    /\ UNCHANGED << pc, segments, epsilon_depths, segments_one_initial_final,
                    afaOutput, symbolRemapping, remapLog, inputVars, driverVars >>

\* The loop is over: noodlify returns the noodles.
NoodlifyReturn ==
    /\ pc = "enumerate"
    /\ ~(index < get_num_of_permutations(epsilon_depths))
    /\ pc' = "done"
    /\ UNCHANGED << segments, epsilon_depths, segments_one_initial_final, afaOutput,
                    symbolRemapping, remapLog, index, noodles, inputVars, driverVars >>

Next ==
    \/ NoodlifyBegin
    \/ BuildRegistry
    \/ EmitAFA
    \/ NoodleStep
    \/ NoodlifyReturn

Spec == Init /\ [][Next]_vars
SpecAfa == InitAfa /\ [][Next]_vars

\* ---------------------------------------------------- noodlify_for_equation
haskey(bag, key) == key \in DOMAIN bag

\* The configuration bags: each key absent or carrying one of its values.
Absent == "<absent>"
ReduceValues == { "forward", "backward", "bidirectional", "sideways", "" }
AfaTypeValues == { "bits", "tracks", "matrix" }
OtherValues == { "on" }

Bag(r, a, o) ==
    [ k \in { x \in { "reduce", "afa-type", "verbose" } :
                \/ x = "reduce" /\ r # Absent
                \/ x = "afa-type" /\ a # Absent
                \/ x = "verbose" /\ o # Absent } |->
        IF k = "reduce" THEN r ELSE IF k = "afa-type" THEN a ELSE o ]

ParamBags ==
    { Bag(r, a, o) : r \in ReduceValues \cup {Absent},
                     a \in AfaTypeValues \cup {Absent},
                     o \in OtherValues \cup {Absent} }

\* unify_initial and unify_final called on every automaton of the sequence.
UnifyAll(lhs) ==
    [ i \in 1 .. Len(lhs) |->
        [lhs[i] EXCEPT !.calls = @ \o << "unify_initial", "unify_final" >>] ]

\* Mutant: the reference-taking overload unifies on request only.
UnifyRefOnRequest(lhs, bag) ==
    IF haskey(bag, "reduce") /\ bag["reduce"] \in { "forward", "backward", "bidirectional" }
    THEN UnifyAll(lhs)
    ELSE lhs

\* The reference-taking overload unifies every left automaton.
UnifyRef(lhs, bag) == UnifyAll(lhs)

\* The handle-taking overload reads `reduce` first and unifies for its three
\* directions only.
ReduceValuePtr(bag) == IF haskey(bag, "reduce") THEN bag["reduce"] ELSE ""

UnifyPtr(lhs, bag) ==
    LET reduce_value == ReduceValuePtr(bag)
    IN  IF reduce_value # ""
           /\ (reduce_value = "forward" \/ reduce_value = "backward"
               \/ reduce_value = "bidirectional")
        THEN UnifyAll(lhs)
        ELSE lhs

\* Mutant: only the empty left side returns early.
ReturnsEarlyOnLhsOnly(lhs, rhs) == Len(lhs) = 0

\* The two short-circuits before the product is built.
ReturnsEarly(lhs, rhs) == Len(lhs) = 0 \/ rhs.lang_empty

\* The reduce and invert calls a value of `reduce` asks for.
ReduceCalls(reduce_value) ==
    (IF reduce_value = "forward" \/ reduce_value = "bidirectional"
     THEN << "reduce" >> ELSE << >>)
    \o (IF reduce_value = "backward" \/ reduce_value = "bidirectional"
        THEN << "invert", "reduce", "invert" >> ELSE << >>)

ReduceRef(bag) == IF haskey(bag, "reduce") THEN ReduceCalls(bag["reduce"]) ELSE << >>

ReducePtr(bag) ==
    LET reduce_value == ReduceValuePtr(bag)
    IN  IF reduce_value # "" THEN ReduceCalls(reduce_value) ELSE << >>

\* Mutant: only the value bits selects the bit encoding.
UseBitsOnlyForBits(bag) ==
    IF haskey(bag, "afa-type")
    THEN IF bag["afa-type"] = "bits" THEN TRUE ELSE FALSE
    ELSE TRUE

\* useBits as both overloads compute it.
UseBitsOf(bag) ==
    IF haskey(bag, "afa-type")
    THEN IF bag["afa-type"] = "tracks" THEN FALSE ELSE TRUE
    ELSE TRUE

\* EnumAlphabet::get_next_value: a symbol above every symbol of the alphabet.
get_next_value(alphabet) ==
    IF alphabet = {} THEN 0
    ELSE (CHOOSE x \in alphabet : \A y \in alphabet : x >= y) + 1

\* What intersection and trim may leave of n concatenated automata: nothing,
\* or a trimmed automaton of n segments.
ProductChoices(n) ==
    { EmptyNfa } \cup
    { A \in Automata(n, NonEmptySubsets(Layers[1]), NonEmptySubsets(Layers[n]),
                     1, FALSE) :
        /\ Trim(A).states = UNION { Layers[l] : l \in 1 .. n }
        /\ NumSegments(A, FreshEpsilon) = n }

\* noodlify_for_equation called through either overload.
InitEq ==
    /\ pc = "driver"
    /\ overload \in { "ref", "ptr" }
    /\ \E n \in 0 .. MaxLhs :
          /\ left_automata = [ i \in 1 .. n |-> [calls |-> << >>] ]
          /\ variableLocations = [ v \in 1 .. n |-> << v - 1 >> ]
    /\ right_automaton \in { [lang_empty |-> b, calls |-> << >>] : b \in BOOLEAN }
    /\ params \in ParamBags
    /\ include_empty \in BOOLEAN
    /\ product = EmptyNfa
    /\ productOps = << >>
    /\ aut = EmptyNfa
    /\ epsilon = 0
    /\ alph = {}
    /\ useBits = TRUE
    /\ Fresh

noodlifyVars == << segments, epsilon_depths, segments_one_initial_final, afaOutput,
                   symbolRemapping, remapLog, index, noodles >>

\* Both overloads start by unifying the left automata.
DriverUnify ==
    /\ pc = "driver"
    /\ left_automata' = IF overload = "ref" THEN UnifyRef(left_automata, params)
                        ELSE UnifyPtr(left_automata, params)
    /\ pc' = "checks"
    /\ UNCHANGED << overload, right_automaton, params, product, productOps,
                    inputVars, noodlifyVars >>

\* An empty left side or an empty right language returns no noodle.
DriverReturnEarly ==
    /\ pc = "checks"
    /\ ReturnsEarly(left_automata, right_automaton)
    /\ noodles' = << >>
    /\ pc' = "done"
    /\ UNCHANGED << segments, epsilon_depths, segments_one_initial_final, afaOutput,
                    symbolRemapping, remapLog, index, inputVars, driverVars >>

\* The alphabet, epsilon, the concatenation and the trimmed product.
DriverProduct ==
    /\ pc = "checks"
    /\ ~ReturnsEarly(left_automata, right_automaton)
    /\ alph' = Symbols \cup { get_next_value(Symbols) }
    /\ epsilon' = get_next_value(Symbols)
    /\ product' \in ProductChoices(Len(left_automata))
    /\ IF is_lang_empty(product')
       THEN noodles' = << >> /\ pc' = "done"
       ELSE noodles' = noodles /\ pc' = "reduce"
    /\ UNCHANGED << aut, variableLocations, include_empty, useBits, overload,
                    left_automata, right_automaton, params, productOps, segments,
                    epsilon_depths, segments_one_initial_final, afaOutput,
                    symbolRemapping, remapLog, index >>

\* The reductions asked for, then the call of noodlify on the product.
DriverDispatch ==
    /\ pc = "reduce"
    /\ productOps' = IF overload = "ref" THEN ReduceRef(params) ELSE ReducePtr(params)
    /\ useBits' = UseBitsOf(params)
    /\ aut' = product
    /\ pc' = "noodlify"
    /\ UNCHANGED << epsilon, variableLocations, alph, include_empty, overload,
                    left_automata, right_automaton, params, product, noodlifyVars >>

NextEq ==
    \/ DriverUnify
    \/ DriverReturnEarly
    \/ DriverProduct
    \/ DriverDispatch
    \/ NoodlifyBegin
    \/ BuildRegistry
    \/ EmitAFA
    \/ NoodleStep
    \/ NoodlifyReturn

SpecEq == InitEq /\ [][NextEq]_vars

\* noodlify reached either way: called directly with every printing option,
\* or dispatched by noodlify_for_equation.
SpecCalls == (InitAfa \/ InitEq) /\ [][NextEq]_vars

\* ================================================================== claims
\* Vocabulary of the claims, stated on the program's state.
Returned == pc = "done"
NumDepths == Len(epsilon_depths)
K(d) == Len(epsilon_depths[d])
Unused == Cardinality(aut.states)

RECURSIVE RadixWeight(_)
\* k_0 * ... * k_{d-1}, for the depth numbered d + 1 here.
RadixWeight(d) == IF d = 1 THEN 1 ELSE RadixWeight(d - 1) * K(d - 1)

\* N, the number of combinations.
Combinations == RadixWeight(NumDepths + 1)

\* The transitions combination c picks: digit d of c in the mixed radix.
Picked(c) ==
    [ d \in 1 .. NumDepths |->
        epsilon_depths[d][((c \div RadixWeight(d)) % K(d)) + 1] ]

Registered(i, f) == << i, f >> \in DOMAIN segments_one_initial_final

LookupsSucceed(c) ==
    LET t == Picked(c)
    IN  /\ Registered(Unused, t[1].src)
        /\ \A d \in 1 .. NumDepths - 1 : Registered(t[d].tgt, t[d + 1].src)
        /\ Registered(t[NumDepths].tgt, Unused)

NoodleOf(c) ==
    LET t == Picked(c)
    IN  [ j \in 1 .. NumDepths + 1 |->
            IF j = 1 THEN segments_one_initial_final[<< Unused, t[1].src >>]
            ELSE IF j = NumDepths + 1
                 THEN segments_one_initial_final[<< t[NumDepths].tgt, Unused >>]
                 ELSE segments_one_initial_final[<< t[j - 1].tgt, t[j].src >>] ]

RECURSIVE SuccessfulNoodles(_, _)
\* The noodles of the successful combinations c .. limit - 1, in order.
SuccessfulNoodles(c, limit) ==
    IF c >= limit THEN << >>
    ELSE (IF LookupsSucceed(c) THEN << NoodleOf(c) >> ELSE << >>)
         \o SuccessfulNoodles(c + 1, limit)

InLoop == pc \in { "enumerate", "done" } /\ NumDepths >= 1

\* C1: with D >= 1 depths, the noodles built so far are exactly those of the
\* successful combinations below the loop index, in increasing index order,
\* combination c picking at depth d the transition number
\* (c div (k_0 * ... * k_{d-1})) mod k_d; noodlify returns when the index
\* has reached N, so the result lists every successful combination once.
C1_MixedRadixOrder ==
    InLoop =>
        /\ noodles = SuccessfulNoodles(0, index)
        /\ Returned => index = Combinations

\* C1 witness: a returned call with two depths of two transitions each in
\* which some combination failed between two that succeeded.
C1_Witness ==
    /\ Returned /\ NumDepths = 2 /\ K(1) = 2 /\ K(2) = 2
    /\ LookupsSucceed(0) /\ ~LookupsSucceed(1) /\ ~LookupsSucceed(2)
    /\ LookupsSucceed(3)
    /\ Len(noodles) = 2

\* Whether the choice t explains the noodle in the sense of the claim.
PinnedBy(noodle, t) ==
    /\ noodle[1].finalstates = { t[1].src }
    /\ noodle[NumDepths + 1].initialstates = { t[NumDepths].tgt }
    /\ \A d \in 2 .. NumDepths :
          /\ noodle[d].initialstates = { t[d - 1].tgt }
          /\ noodle[d].finalstates = { t[d].src }

\* The same, an element without states being let through.
PinnedOrEmptyBy(noodle, t) ==
    /\ noodle[1].states = {} \/ noodle[1].finalstates = { t[1].src }
    /\ \/ noodle[NumDepths + 1].states = {}
       \/ noodle[NumDepths + 1].initialstates = { t[NumDepths].tgt }
    /\ \A d \in 2 .. NumDepths :
          \/ noodle[d].states = {}
          \/ /\ noodle[d].initialstates = { t[d - 1].tgt }
             /\ noodle[d].finalstates = { t[d].src }

\* C2 as stated: every returned noodle has D + 1 elements and a choice of one
\* transition per depth whose endpoints are the elements' single initial and
\* final states, for either value of includeEmpty.
C2_Original ==
    InLoop =>
        \A n \in 1 .. Len(noodles) :
            /\ Len(noodles[n]) = NumDepths + 1
            /\ \E c \in 0 .. Combinations - 1 : PinnedBy(noodles[n], Picked(c))

\* C2 amended: every returned noodle has D + 1 elements and a choice of one
\* transition per depth such that each element either has no state at all or
\* has the endpoints as its single initial and final states; an element
\* without states occurs only when includeEmpty is set.
C2_PinnedOrEmpty ==
    InLoop =>
        \A n \in 1 .. Len(noodles) :
            /\ Len(noodles[n]) = NumDepths + 1
            /\ \E c \in 0 .. Combinations - 1 : PinnedOrEmptyBy(noodles[n], Picked(c))
            /\ ~include_empty =>
                  /\ \A j \in 1 .. NumDepths + 1 : noodles[n][j].states # {}
                  /\ \E c \in 0 .. Combinations - 1 : PinnedBy(noodles[n], Picked(c))

\* C2 witness: a returned noodle of three elements whose middle element has
\* no state, next to one whose elements are all pinned.
C2_Witness ==
    /\ Returned /\ NumDepths = 2 /\ include_empty
    /\ \E n \in 1 .. Len(noodles) : noodles[n][2].states = {}
    /\ \E n \in 1 .. Len(noodles) :
          \A j \in 1 .. 3 : noodles[n][j].states # {}

\* C3: a single segment returns the one noodle [trim(segments[0])] when the
\* trimmed automaton has a state or includeEmpty is set, and no noodle
\* otherwise, with the map and the loop untouched.
C3_SingleSegment ==
    (Returned /\ Len(segments) = 1) =>
        /\ noodles = IF Trim(segments[1]).states # {} \/ include_empty
                     THEN << << Trim(segments[1]) >> >>
                     ELSE << >>
        /\ segments_one_initial_final = << >>
        /\ index = 0

\* C3 witness: a single-segment call that returned no noodle.
C3_Witness ==
    /\ Returned /\ Len(segments) = 1 /\ aut.delta # {}
    /\ ~include_empty /\ noodles = << >>

\* C4: with D >= 1 the number of returned noodles is at most N, it is N
\* exactly when every lookup of every combination succeeds, and N = 0 gives
\* no noodle.
C4_Cardinality ==
    (Returned /\ NumDepths >= 1) =>
        /\ Len(noodles) <= Combinations
        /\ Len(noodles) = Combinations
              <=> \A c \in 0 .. Combinations - 1 : LookupsSucceed(c)
        /\ Combinations = 0 => noodles = << >>

\* C4 witness: a returned call in which every one of four combinations
\* succeeded.
C4_Witness ==
    /\ Returned /\ NumDepths = 2 /\ Combinations = 4 /\ Len(noodles) = 4

\* noodlify has been called by the driver.
Dispatched ==
    \/ pc \in { "noodlify", "registry", "afa", "enumerate" }
    \/ Returned /\ segments # << >>

ReduceOf == IF "reduce" \in DOMAIN params THEN params["reduce"] ELSE Absent
AfaTypeOf == IF "afa-type" \in DOMAIN params THEN params["afa-type"] ELSE Absent
RecognizedReduce == ReduceOf \in { "forward", "backward", "bidirectional" }
Unified == << "unify_initial", "unify_final" >>

\* C5: with an empty left side, an empty right language or an empty product
\* language, either overload returns no noodle without calling noodlify, and
\* nothing is written to the sink.
C5_EmptyShortCircuit ==
    ( \/ Len(left_automata) = 0
      \/ right_automaton.lang_empty
      \/ pc \notin { "driver", "checks" } /\ is_lang_empty(product) )
    => /\ pc \in { "driver", "checks", "done" }
       /\ segments = << >>
       /\ afaOutput = << >>
       /\ Returned => noodles = << >>

\* C5 witness: the handle-taking overload returned on a product of empty
\* language, both sides being non-empty.
C5_Witness ==
    /\ Returned /\ overload = "ptr"
    /\ Len(left_automata) = 2 /\ ~right_automaton.lang_empty
    /\ is_lang_empty(product) /\ afaOutput = << >>

\* The lines of one AFA description, in order.
AfaDescription(out, bits) ==
    LET h == IF bits THEN 1 ELSE 3
    IN  /\ Len(out) >= h + 3
        /\ \A i \in 1 .. h : out[i].kind = "header"
        /\ out[1].text = IF bits THEN "@AFA-bits" ELSE "@AFA-explicit"
        /\ out[h + 1].kind = "initial"
        /\ out[h + 2].kind = "final"
        /\ \A i \in h + 3 .. Len(out) - 1 : out[i].kind = "state"
        /\ out[Len(out)] = Line("marker", "#AFA was fully printed")

\* C6 as stated: every call of noodlify that returns, a single-segment call
\* included, has written one AFA description: header, %Initial, %Final,
\* state lines, marker.
C6_Original == Returned => AfaDescription(afaOutput, useBits)

\* C6 amended: a call on at least two segments has written exactly one AFA
\* description, in that order, when the loop starts and when it returns; a
\* single-segment call returns with nothing written; the marker is never
\* followed by another line.
C6_AfaOnlyForSegments ==
    /\ (pc \in { "enumerate", "done" } /\ Len(segments) >= 2)
          => AfaDescription(afaOutput, useBits)
    /\ (Returned /\ Len(segments) = 1) => afaOutput = << >>
    /\ \A i \in 1 .. Len(afaOutput) :
          afaOutput[i].kind = "marker" => i = Len(afaOutput)

\* C6 witness: a returned call on three segments in track mode with
\* transition lines between %Final and the marker.
C6_Witness ==
    /\ Returned /\ Len(segments) = 3 /\ ~useBits
    /\ Len(afaOutput) >= 9
    /\ afaOutput[Len(afaOutput)].kind = "marker"

RECURSIVE Pow2(_)
Pow2(n) == IF n = 0 THEN 1 ELSE 2 * Pow2(n - 1)

\* Binary digit k of r.
DigitOf(r, k) == (r \div Pow2(k)) % 2

\* The least b with 2^b >= n.
CeilLog2(n) == CHOOSE b \in 0 .. 32 : Pow2(b) >= n /\ \A c \in 0 .. b - 1 : Pow2(c) < n

\* neededBits as the claim has it, and as amended.
ClaimedBits(n) == IF n = 1 THEN 1 ELSE CeilLog2(IF n > 1 THEN n ELSE 1)
AmendedBits(n) == IF n <= 1 THEN 1 ELSE CeilLog2(n)

\* The atoms of track v, most significant digit first.
BigEndianText(r, v, nb) ==
    JoinStr([ i \in 1 .. nb |->
                (IF DigitOf(r, nb - 1 - (i - 1)) = 1 THEN "" ELSE "!")
                \o "a" \o ToString(v * nb + (i - 1)) ], " & ")

\* The atoms of track v, least significant digit first.
LittleEndianText(r, v, nb) ==
    JoinStr([ i \in 1 .. nb |->
                (IF DigitOf(r, i - 1) = 1 THEN "" ELSE "!")
                \o "a" \o ToString(v * nb + (i - 1)) ], " & ")

\* C7 as stated: in bit mode a remapped id r on track v is written as
\* neededBits literals over a_{v*neededBits} .., the literal of atom
\* a_{v*neededBits+i} positive iff digit neededBits-1-i of r is 1, with
\* neededBits = ceil(log2(max(1, |alphabet|))), 1 for one symbol.
C7_Original ==
    useBits =>
        \A n \in 1 .. Len(remapLog) :
            remapLog[n].text = BigEndianText(remapLog[n].remapped, remapLog[n].track,
                                             ClaimedBits(Cardinality(alph)))

\* C7 amended: the literal of atom a_{v*neededBits+i} is positive iff digit
\* i of r is 1 (least significant first), with neededBits =
\* ceil(log2(|alphabet|)) for two symbols or more and 1 for at most one.
C7_LittleEndianBits ==
    useBits =>
        \A n \in 1 .. Len(remapLog) :
            remapLog[n].text = LittleEndianText(remapLog[n].remapped, remapLog[n].track,
                                                AmendedBits(Cardinality(alph)))

\* C7 witness: id 1 written on track 0 with two bits.
C7_Witness ==
    /\ useBits /\ Cardinality(alph) = 3
    /\ \E n \in 1 .. Len(remapLog) :
          /\ remapLog[n].remapped = 1 /\ remapLog[n].track = 0
          /\ remapLog[n].text = "a0 & !a1"

\* C8: an unrecognized value of reduce or afa-type acts as the key being
\* absent, and no other key matters: useBits is false only for tracks, the
\* reduce and invert calls are those of the three directions and none
\* otherwise, and without a direction the left automata are unified by the
\* reference-taking overload only.
C8_UnknownValuesIgnored ==
    /\ Dispatched =>
          /\ useBits = (AfaTypeOf # "tracks")
          /\ productOps =
                IF ReduceOf = "forward" THEN << "reduce" >>
                ELSE IF ReduceOf = "backward" THEN << "invert", "reduce", "invert" >>
                ELSE IF ReduceOf = "bidirectional"
                     THEN << "reduce", "invert", "reduce", "invert" >>
                     ELSE << >>
    /\ (pc # "driver" /\ ~RecognizedReduce) =>
          \A i \in 1 .. Len(left_automata) :
              left_automata[i].calls = IF overload = "ref" THEN Unified ELSE << >>

\* C8 witness: the handle-taking overload returned from noodlify with both
\* keys unrecognized and a third key present.
C8_Witness ==
    /\ Returned /\ Dispatched /\ overload = "ptr"
    /\ ReduceOf = "sideways" /\ AfaTypeOf = "matrix" /\ "verbose" \in DOMAIN params
    /\ useBits /\ productOps = << >>

\* C9: the reference-taking overload unifies every left automaton on every
\* call, the handle-taking one exactly for the three directions of reduce,
\* leaving them untouched otherwise; the right automaton is never modified.
C9_UnifyFrame ==
    /\ pc # "driver" =>
          \A i \in 1 .. Len(left_automata) :
              left_automata[i].calls =
                  IF overload = "ref" \/ RecognizedReduce THEN Unified ELSE << >>
    /\ right_automaton.calls = << >>

\* C9 witness: the reference-taking overload returned early on an empty
\* right language, its two left automata unified, no reduce asked.
C9_Witness ==
    /\ Returned /\ overload = "ref" /\ right_automaton.lang_empty
    /\ ReduceOf = Absent /\ Len(left_automata) = 2
    /\ \A i \in 1 .. 2 : left_automata[i].calls = Unified

\* The initial states of the segments after the first, and their segment.
CrossInitials == UNION { segments[s].initialstates : s \in 2 .. Len(segments) }
SegmentOfInitial(i) == CHOOSE s \in 2 .. Len(segments) : i \in segments[s].initialstates
ReachableIn(s) == get_reachable_states(segments[s])
AllEpsilon ==
    UNION { { epsilon_depths[d][j] : j \in 1 .. Len(epsilon_depths[d]) } :
            d \in 1 .. Len(epsilon_depths) }

\* P(i) as the claim has it, and as amended.
ClaimedP(i) ==
    ReachableIn(SegmentOfInitial(i) - 1) \ { t.tgt : t \in { x \in AllEpsilon : x.tgt = i } }
AmendedP(i) ==
    ReachableIn(SegmentOfInitial(i) - 1) \ { t.src : t \in { x \in AllEpsilon : x.tgt = i } }

Negated(S) ==
    LET ss == SetToSeq(S)
    IN  JoinStr([ j \in 1 .. Len(ss) |-> "!q" \o ToString(ss[j]) ], " & ")

ClauseOf(i, P) == " & " \o "(!q" \o ToString(i) \o "' | (" \o Negated(P) \o "))"

LastSegmentPart ==
    LET nonFinal == ReachableIn(Len(segments)) \ segments[Len(segments)].finalstates
    IN  IF nonFinal = {} THEN "true" ELSE "(" \o Negated(nonFinal) \o ")"

WrittenFinalLine == CHOOSE n \in 1 .. Len(afaOutput) : afaOutput[n].kind = "final"

Printed == pc \in { "enumerate", "done" } /\ Len(segments) >= 2

\* C10 as stated: the %Final line carries, for every initial state i of a
\* later segment, a clause exactly when P(i) is not empty, negating exactly
\* P(i) = reachable states of the segment before, less the targets equal to
\* i; the clauses follow the last-segment part.
C10_Original ==
    Printed =>
        /\ afaOutput[WrittenFinalLine].text = "%Final " \o LastSegmentPart
        /\ afaOutput[WrittenFinalLine].clauses =
              { ClauseOf(i, ClaimedP(i)) : i \in { j \in CrossInitials : ClaimedP(j) # {} } }

\* C10 amended: the same with P(i) = reachable states of the segment before,
\* less the sources of the epsilon transitions that lead to i.
C10_FinalFormula ==
    Printed =>
        /\ afaOutput[WrittenFinalLine].text = "%Final " \o LastSegmentPart
        /\ afaOutput[WrittenFinalLine].clauses =
              { ClauseOf(i, AmendedP(i)) : i \in { j \in CrossInitials : AmendedP(j) # {} } }

\* C10 witness: three segments, a last segment with a reachable state that
\* is not final, an initial state with a clause and one without.
C10_Witness ==
    /\ Returned /\ Len(segments) = 3
    /\ afaOutput[WrittenFinalLine].text # "%Final true"
    /\ \E i \in CrossInitials : AmendedP(i) = {}
    /\ \E i \in CrossInitials : Cardinality(AmendedP(i)) = 1

\* The segments listed in variableLocations carry symbols of alph only.
AlphabetCovers ==
    \A v \in 1 .. Len(variableLocations) :
        \A l \in 1 .. Len(variableLocations[v]) :
            \A t \in segments[variableLocations[v][l] + 1].delta : t[2] \in alph

\* C11: in one emission in bit mode, when the listed segments carry symbols
\* of the alphabet only (as they do in every call dispatched by
\* noodlify_for_equation), every id of the first-sight table is below
\* 2^neededBits, a symbol is written the same way at each occurrence on a
\* track, and two symbols are never written the same way on a track.
C11_IdsFitNeededBits ==
    /\ (Printed /\ overload # "none") => AlphabetCovers
    /\ (Printed /\ useBits /\ AlphabetCovers) =>
          /\ \A n \in 1 .. Len(remapLog) :
                remapLog[n].remapped < Pow2(AmendedBits(Cardinality(alph)))
          /\ \A m, n \in 1 .. Len(remapLog) :
                remapLog[m].track = remapLog[n].track =>
                    ( remapLog[m].symbol = remapLog[n].symbol
                      <=> remapLog[m].text = remapLog[n].text )

\* C11 witness: a direct call in bit mode on a three-symbol alphabet that
\* covers the segments, with id 2 assigned, a symbol written twice on one
\* track and two symbols written on one track.
C11_Witness ==
    /\ Returned /\ Printed /\ useBits /\ AlphabetCovers
    /\ Cardinality(alph) = 3
    /\ \E n \in 1 .. Len(remapLog) : remapLog[n].remapped = 2
    /\ \E m, n \in 1 .. Len(remapLog) :
          /\ m < n /\ remapLog[m].track = remapLog[n].track
          /\ remapLog[m].symbol = remapLog[n].symbol
    /\ \E m, n \in 1 .. Len(remapLog) :
          /\ remapLog[m].track = remapLog[n].track
          /\ remapLog[m].symbol # remapLog[n].symbol
=============================================================================
